---- MODULE Spec2Model ----
(***************************************************************************)
(* A model of reddit_code.py: the RedditCollector (row normalisation, the  *)
(* hot and search passes, the export with its deduplication) and           *)
(* collect_comments_for_posts.                                             *)
(*                                                                         *)
(* Values.  A Python value that may be None is a tuple: None is <<>> and a *)
(* present value v is <<v>>.  A Python string that the code takes apart or *)
(* concatenates (a permalink, a selftext) is a sequence of tokens; the     *)
(* site origin "https://www.reddit.com" is one token.  A raw created_utc   *)
(* is <<"num", t>> (a number of t tenths of a second, as the API's floats) *)
(* or <<"text", 0>> (a value int() cannot convert).                        *)
(***************************************************************************)
EXTENDS Integers, Sequences, FiniteSets

VARIABLES
    rows,          \* self.rows: the accumulated Post Rows
    pc,            \* the call in progress: "idle", "hot", "search", "comments", "done"
    names,         \* the subreddits argument of the pass in progress
    i,             \* how many subreddits the pass's for loop has gone through
    query,         \* the search_query the pass hands to the normaliser
    total,         \* the local total of the pass
    warned,        \* the names of the log.warning lines of the last pass, in order
    listing,       \* what the API answered to the last request of the pass
    ret,           \* the call that returned last and what it returned
    post_df,       \* the post_df argument of collect_comments_for_posts
    cap,           \* its max_comments_per_post argument
    j,             \* how many posts the harvest's for loop has gone through
    all_comments,  \* all_comments of the harvest
    threads,       \* what the API answered for each post of the harvest
    comments_csv,  \* the comments file: None until written, then <<rows>>
    sub,           \* the arguments handed to _row_from_submission
    out            \* its outcome: None before the call, then <<outcome>>

vars == <<rows, pc, names, i, query, total, warned, listing, ret,
          post_df, cap, j, all_comments, threads, comments_csv, sub, out>>

passVars == <<names, i, query, total, warned, listing>>
collectorVars == <<rows, pc, names, i, query, total, warned, listing, ret>>
harvestVars == <<post_df, cap, j, all_comments, threads, comments_csv>>
rowVars == <<sub, out>>

----------------------------------------------------------------------------
(* Bounds of the model *)

MaxRows == 3        \* the row list grows to at most this many rows
MaxYield == 2       \* a listing yields at most this many submissions
MaxPosts == 2       \* the harvest is given the export of at most this many rows
MaxThread == 2      \* a flattened thread holds at most this many comments
MaxCap == 2         \* max_comments_per_post is at most this

----------------------------------------------------------------------------
(* Values *)

None == <<>>
Some(v) == <<v>>

Min(a, b) == IF a <= b THEN a ELSE b

ORIGIN == "https://www.reddit.com"

SelftextCap == 500
BodyCap == 2000

REQUIRED_COLUMNS ==
    <<"title", "score", "upvote_ratio", "num_comments", "author", "subreddit",
      "url", "permalink", "created_utc", "is_self", "selftext", "flair",
      "domain", "search_query">>

Columns == {REQUIRED_COLUMNS[k] : k \in DOMAIN REQUIRED_COLUMNS}

(* s[:n] *)
Slice(s, n) == SubSeq(s, 1, Min(Len(s), n))

(* int(x) of a number given in tenths: Python truncates toward zero *)
IntOf(t) == IF t >= 0 THEN t \div 10 ELSE -((-t) \div 10)

(* int(created_utc) raises ValueError or TypeError on such a value *)
IntRaises(c) == c # None /\ c[1] # "num"

----------------------------------------------------------------------------
(* RedditCollector._row_from_submission *)

RowRaises(s) == IntRaises(s.created_utc)

(* As RowFromSubmission, but the query is dropped *)
RowFromSubmissionNoQuery(s, subreddit_name, search_query) ==
    [title |-> s.title,
     score |-> s.score,
     upvote_ratio |-> s.upvote_ratio,
     num_comments |-> s.num_comments,
     author |-> IF s.author # None THEN s.author[1].name ELSE None,
     subreddit |-> subreddit_name,
     url |-> s.url,
     permalink |-> IF s.permalink # None /\ s.permalink[1] # <<>>
                   THEN Some(<<ORIGIN>> \o s.permalink[1]) ELSE None,
     created_utc |-> IF s.created_utc # None
                     THEN Some(IntOf(s.created_utc[2])) ELSE None,
     is_self |-> s.is_self,
     selftext |-> IF s.selftext # None
                  THEN Some(Slice(s.selftext[1], SelftextCap)) ELSE None,
     flair |-> s.link_flair_text,
     domain |-> s.domain,
     search_query |-> ""]

RowFromSubmission(s, subreddit_name, search_query) ==
    [title |-> s.title,
     score |-> s.score,
     upvote_ratio |-> s.upvote_ratio,
     num_comments |-> s.num_comments,
     author |-> IF s.author # None THEN s.author[1].name ELSE None,
     subreddit |-> subreddit_name,
     url |-> s.url,
     permalink |-> IF s.permalink # None /\ s.permalink[1] # <<>>
                   THEN Some(<<ORIGIN>> \o s.permalink[1]) ELSE None,
     created_utc |-> IF s.created_utc # None
                     THEN Some(IntOf(s.created_utc[2])) ELSE None,
     is_self |-> s.is_self,
     selftext |-> IF s.selftext # None
                  THEN Some(Slice(s.selftext[1], SelftextCap)) ELSE None,
     flair |-> s.link_flair_text,
     domain |-> s.domain,
     search_query |-> IF search_query = None \/ search_query = Some("")
                      THEN "" ELSE search_query[1]]

(* The raw submissions the normaliser is tried on: every field absent or   *)
(* present, the permalink relative, absolute or empty, the created_utc a   *)
(* number or not, the selftext under or over the cap.                      *)
LongText == [k \in 1..(SelftextCap + 1) |-> "x"]

RawSubmissions ==
    [title : {None, Some("t")},
     score : {None, Some(7)},
     upvote_ratio : {None, Some(90)},
     num_comments : {None, Some(3)},
     author : {None, Some([name |-> None]), Some([name |-> Some("u")])},
     url : {None, Some("u1")},
     permalink : {None, Some(<<>>), Some(<<"/r/x/1">>),
                  Some(<<ORIGIN, "/r/x/1">>)},
     created_utc : {None, <<"num", 175>>, <<"text", 0>>},
     is_self : {None, Some(TRUE), Some(FALSE)},
     selftext : {None, Some(<<"x", "y">>), Some(LongText)},
     link_flair_text : {None, Some("f")},
     domain : {None, Some("d")}]

RawQueries == {None, Some(""), Some("q")}

(* One call of _row_from_submission: it returns a row or raises. *)
Normalize ==
    /\ out = None
    /\ out' = Some(IF RowRaises(sub.s)
                   THEN [raised |-> TRUE, row |-> None]
                   ELSE [raised |-> FALSE,
                         row |-> RowFromSubmission(sub.s, sub.name, sub.q)])
    /\ UNCHANGED <<sub, collectorVars, harvestVars>>

----------------------------------------------------------------------------
(* The submissions the API yields in the passes.  A submission belongs to *)
(* one subreddit: r/netflix holds a post with a permalink and two without *)
(* one, under different urls; r/movies holds a post with a permalink.     *)

Post(p, u) ==
    [title |-> Some("t"), score |-> Some(7), upvote_ratio |-> Some(90),
     num_comments |-> Some(3), author |-> Some([name |-> Some("u")]),
     url |-> u, permalink |-> p, created_utc |-> <<"num", 175>>,
     is_self |-> Some(FALSE), selftext |-> Some(<<"x", "y">>),
     link_flair_text |-> None, domain |-> Some("d")]

Subreddits == {"netflix", "movies"}
Queries == {"Netflix Originals"}

PostsOf(name) ==
    IF name = "netflix"
    THEN {Post(Some(<<"/r/netflix/1">>), Some("u1")),
          Post(None, Some("u1")), Post(None, Some("u2"))}
    ELSE {Post(Some(<<"/r/movies/1">>), Some("u3"))}

SeqsUpTo(S, n) == UNION {[1..m -> S] : m \in 0..n}

(* The subreddits argument of a pass: any list, repeats included, as long *)
(* as there are subreddits.                                               *)
SubredditLists == SeqsUpTo(Subreddits, Cardinality(Subreddits))

(* What one request (subreddit(name).hot() or .search()) answers: the     *)
(* submissions the listing yields, and whether it raises after them (on   *)
(* the first request when there are none).                                *)
Listings(name) == [items : SeqsUpTo(PostsOf(name), MaxYield), fails : BOOLEAN]

NoListing == [items |-> <<>>, fails |-> FALSE]

(* The body of the try of one subreddit, lines 87-89 and 101-103: each    *)
(* submission the listing yields is normalised and appended, until the    *)
(* listing or the normaliser raises.                                      *)
FirstRaising(items) ==
    IF \E k \in DOMAIN items : RowRaises(items[k])
    THEN CHOOSE k \in DOMAIN items :
            RowRaises(items[k]) /\ \A m \in 1..(k - 1) : ~RowRaises(items[m])
    ELSE 0

Consume(answer, name, q) ==
    LET bad == FirstRaising(answer.items)
        good == IF bad = 0 THEN Len(answer.items) ELSE bad - 1
    IN  [rows |-> [k \in 1..good |-> RowFromSubmission(answer.items[k], name, q)],
         raised |-> bad # 0 \/ answer.fails]

----------------------------------------------------------------------------
(* RedditCollector.to_dataframe and export_posts_csv *)

NA == None

ToDataframe(rs) ==
    [k \in 1..Len(rs) |->
        [c \in Columns |-> IF c \in DOMAIN rs[k] THEN rs[k][c] ELSE NA]]

(* df.drop_duplicates(subset=[col], keep="first"): a row goes when an     *)
(* earlier row has the same value in col; pandas takes two missing values *)
(* as the same value.                                                     *)
RECURSIVE DropFrom(_, _, _)
DropFrom(df, col, k) ==
    IF k > Len(df) THEN <<>>
    ELSE (IF \E m \in 1..(k - 1) : df[m][col] = df[k][col]
          THEN <<>> ELSE <<df[k]>>) \o DropFrom(df, col, k + 1)

(* As DropDuplicates, with keep="last": a row goes when a later row has   *)
(* the same value in col.                                                 *)
RECURSIVE DropFromKeepLast(_, _, _)
DropFromKeepLast(df, col, k) ==
    IF k > Len(df) THEN <<>>
    ELSE (IF \E m \in (k + 1)..Len(df) : df[m][col] = df[k][col]
          THEN <<>> ELSE <<df[k]>>) \o DropFromKeepLast(df, col, k + 1)

DropDuplicatesKeepLast(df, col) == DropFromKeepLast(df, col, 1)

DropDuplicates(df, col) == DropFrom(df, col, 1)

Export(rs) ==
    LET df == ToDataframe(rs)
    IN  IF "permalink" \in Columns THEN DropDuplicates(df, "permalink") ELSE df

----------------------------------------------------------------------------
(* RedditCollector.fetch_hot_posts and search_posts *)

Returned(op, df, n) == [op |-> op, df |-> df, n |-> n]

StartPass(mode, q, subreddits) ==
    /\ pc = "idle"
    /\ pc' = mode
    /\ query' = q
    /\ names' = subreddits
    /\ i' = 0
    /\ total' = 0
    /\ warned' = <<>>
    /\ listing' = NoListing
    /\ ret' = Returned("none", <<>>, 0)
    /\ UNCHANGED <<rows, harvestVars, rowVars>>

FetchHotPosts == \E subreddits \in SubredditLists :
    StartPass("hot", None, subreddits)

SearchPosts == \E q \in Queries, subreddits \in SubredditLists :
    StartPass("search", Some(q), subreddits)

(* One turn of the for loop over the subreddits *)
PassStep ==
    /\ pc \in {"hot", "search"}
    /\ i < Len(names)
    /\ \E answer \in Listings(names[i + 1]) :
         LET name == names[i + 1]
             got == Consume(answer, name, query)
         IN  /\ Len(rows) + Len(got.rows) <= MaxRows
             /\ rows' = rows \o got.rows
             /\ total' = total + Len(got.rows)
             /\ warned' = IF got.raised THEN Append(warned, name) ELSE warned
             /\ listing' = answer
    /\ i' = i + 1
    /\ UNCHANGED <<pc, names, query, ret, harvestVars, rowVars>>

(* The loop is over: the pass returns (search_posts returns total) and    *)
(* its locals are gone; what it logged stays.                             *)
PassReturn ==
    /\ pc \in {"hot", "search"}
    /\ i = Len(names)
    /\ pc' = "idle"
    /\ ret' = Returned(pc, <<>>, IF pc = "search" THEN total ELSE 0)
    /\ names' = <<>> /\ i' = 0 /\ query' = None /\ total' = 0
    /\ listing' = NoListing
    /\ UNCHANGED <<rows, warned, harvestVars, rowVars>>

ToDataframeCall ==
    /\ pc = "idle"
    /\ ret' = Returned("to_dataframe", ToDataframe(rows), 0)
    /\ UNCHANGED <<rows, pc, passVars, harvestVars, rowVars>>

(* As ExportPostsCsv, but the deduplicated table replaces the row list *)
ExportPostsCsvKeepsTable ==
    /\ pc = "idle"
    /\ ret' = Returned("export", Export(rows), 0)
    /\ rows' = Export(rows)
    /\ UNCHANGED <<pc, passVars, harvestVars, rowVars>>

ExportPostsCsv ==
    /\ pc = "idle"
    /\ ret' = Returned("export", Export(rows), 0)
    /\ UNCHANGED <<rows, pc, passVars, harvestVars, rowVars>>

----------------------------------------------------------------------------
(* collect_comments_for_posts *)

(* A comment of a flattened thread; the created_utc of a malformed one is *)
(* a value int() cannot convert.                                          *)
Comment(k, wellFormed) ==
    [id |-> Some(k), author |-> Some([name |-> Some("u")]),
     body |-> Some(<<"b">>), score |-> Some(1),
     created_utc |-> IF wellFormed THEN <<"num", 175>> ELSE <<"text", 0>>,
     depth |-> Some(k - 1)]

(* submission.comments.list(): up to MaxThread comments in the API's      *)
(* order, at most one of them malformed.                                  *)
Flats == {[k \in 1..n |-> Comment(k, k # b)] : n \in 0..MaxThread, b \in 0..MaxThread}

(* What the API answers for one post: reddit.submission or replace_more   *)
(* raises, or the flattened thread comes back.                            *)
NotAsked == [asked |-> FALSE, fails |-> FALSE, flat |-> <<>>]

ThreadAnswers ==
    {[asked |-> TRUE, fails |-> TRUE, flat |-> <<>>]}
    \cup {[asked |-> TRUE, fails |-> FALSE, flat |-> f] : f \in Flats}

(* A created_utc that is truthy: not None, not the number 0 *)
Truthy(c) == c # None /\ ~(c[1] = "num" /\ c[2] = 0)

CommentRowRaises(c) == Truthy(c.created_utc) /\ IntRaises(c.created_utc)

CommentRow(c, title, subreddit_name, permalink) ==
    [post_title |-> title,
     subreddit |-> subreddit_name,
     post_permalink |-> permalink,
     comment_id |-> c.id,
     author |-> IF c.author # None THEN c.author[1].name ELSE None,
     body |-> IF c.body # None THEN Slice(c.body[1], BodyCap) ELSE <<>>,
     score |-> c.score,
     created_utc |-> IF Truthy(c.created_utc)
                     THEN Some(IntOf(c.created_utc[2])) ELSE None,
     depth |-> IF c.depth # None THEN c.depth[1] ELSE 0]

(* As Truncate, cutting one comment late *)
TruncateOneLate(flat, m) == IF m > 0 THEN Slice(flat, m + 1) ELSE flat

(* Lines 146-147: a cap that is None, 0 or negative cuts nothing *)
Truncate(flat, m) == IF m > 0 THEN Slice(flat, m) ELSE flat

FirstRaisingComment(flat) ==
    IF \E k \in DOMAIN flat : CommentRowRaises(flat[k])
    THEN CHOOSE k \in DOMAIN flat :
            CommentRowRaises(flat[k])
            /\ \A m \in 1..(k - 1) : ~CommentRowRaises(flat[m])
    ELSE 0

(* As HarvestPost, but a post whose try raises leaves no rows *)
HarvestPostDropsPartial(row, answer, m) ==
    LET flat == Truncate(answer.flat, m)
    IN  IF answer.fails \/ FirstRaisingComment(flat) # 0
        THEN [rows |-> <<>>, raised |-> TRUE]
        ELSE [rows |-> [k \in 1..Len(flat) |->
                          CommentRow(flat[k], row.title, row.subreddit,
                                     row.permalink)],
              raised |-> FALSE]

(* The body of the try of one post, lines 143-159: the rows appended to   *)
(* all_comments before the try ends or raises.                            *)
HarvestPost(row, answer, m) ==
    IF answer.fails THEN [rows |-> <<>>, raised |-> TRUE]
    ELSE LET flat == Truncate(answer.flat, m)
             bad == FirstRaisingComment(flat)
             good == IF bad = 0 THEN Len(flat) ELSE bad - 1
         IN  [rows |-> [k \in 1..good |->
                          CommentRow(flat[k], row.title, row.subreddit,
                                     row.permalink)],
              raised |-> bad # 0]

(* One turn of the for loop over the posts *)
HarvestStep ==
    /\ pc = "comments"
    /\ j < Len(post_df)
    /\ LET row == post_df[j + 1]
       IN  IF row.permalink = None
           THEN /\ threads' = Append(threads, NotAsked)
                /\ UNCHANGED all_comments
           ELSE \E answer \in ThreadAnswers :
                /\ threads' = Append(threads, answer)
                /\ all_comments' =
                      all_comments \o HarvestPost(row, answer, cap).rows
    /\ j' = j + 1
    /\ UNCHANGED <<post_df, cap, comments_csv, collectorVars, rowVars>>

(* Lines 163-166: the loop is over, the comments file is written *)
HarvestReturn ==
    /\ pc = "comments"
    /\ j = Len(post_df)
    /\ comments_csv' = Some(all_comments)
    /\ pc' = "done"
    /\ UNCHANGED <<post_df, cap, j, all_comments, threads, rows, passVars,
                   ret, rowVars>>

----------------------------------------------------------------------------
(* Specifications *)

NoHarvest ==
    /\ post_df = <<>> /\ cap = 0 /\ j = 0
    /\ all_comments = <<>> /\ threads = <<>> /\ comments_csv = None

NoRow ==
    /\ sub = [s |-> Post(None, None), name |-> "netflix", q |-> None]
    /\ out = None

NoCollector ==
    /\ rows = <<>> /\ pc = "idle" /\ names = <<>> /\ i = 0 /\ query = None
    /\ total = 0 /\ warned = <<>> /\ listing = NoListing
    /\ ret = Returned("none", <<>>, 0)

(* The collector: any sequence of passes, to_dataframe and export calls *)
Init == NoCollector /\ NoHarvest /\ NoRow

Next ==
    \/ FetchHotPosts
    \/ SearchPosts
    \/ PassStep
    \/ PassReturn
    \/ ToDataframeCall
    \/ ExportPostsCsv

Spec == Init /\ [][Next]_vars

(* The normaliser alone, on every raw submission *)
InitRow ==
    /\ NoCollector /\ NoHarvest
    /\ sub \in [s : RawSubmissions, name : Subreddits, q : RawQueries]
    /\ out = None

NextRow == Normalize

SpecRow == InitRow /\ [][NextRow]_vars

(* The harvest of the main script, lines 192-195: the posts have been    *)
(* exported, and the exported table and a cap are handed over.            *)
HotRows ==
    UNION {{RowFromSubmission(p, name, None) : p \in PostsOf(name)} :
           name \in Subreddits}

Caps == 0..MaxCap

InitHarvest ==
    /\ NoRow
    /\ rows \in SeqsUpTo(HotRows, MaxPosts)
    /\ ret = Returned("export", Export(rows), 0)
    /\ post_df = ret.df
    /\ cap \in Caps
    /\ pc = "comments"
    /\ names = <<>> /\ i = 0 /\ query = None /\ total = 0
    /\ warned = <<>> /\ listing = NoListing
    /\ j = 0 /\ all_comments = <<>> /\ threads = <<>> /\ comments_csv = None

NextHarvest == HarvestStep \/ HarvestReturn

SpecHarvest == InitHarvest /\ [][NextHarvest]_vars

----------------------------------------------------------------------------
(* Properties *)

InPass == pc \in {"hot", "search"}

(* The first row of rs holding value v in column col *)
FirstWith(rs, col, v) ==
    CHOOSE a \in DOMAIN rs :
        rs[a][col] = v /\ \A b \in 1..(a - 1) : rs[b][col] # v

(* The rows of table df holding value v in column col *)
Hits(df, col, v) == {t \in DOMAIN df : df[t][col] = v}

(* C1: after an export, for every non-null permalink P of the accumulated  *)
(* rows the exported table holds exactly one row with permalink P, and it  *)
(* is the earliest-inserted row with permalink P.                          *)
C1_ExportKeepsFirstPerPermalink ==
    ret.op = "export" =>
        \A k \in DOMAIN rows :
            rows[k].permalink # None =>
                LET P == rows[k].permalink
                    hits == Hits(ret.df, "permalink", P)
                IN  /\ Cardinality(hits) = 1
                    /\ \A t \in hits :
                          ret.df[t] = rows[FirstWith(rows, "permalink", P)]

(* A hot pass and a later search pass returned the same permalink, and the *)
(* export kept the hot row only.                                           *)
C1_Witness ==
    /\ ret.op = "export"
    /\ Len(ret.df) < Len(rows)
    /\ \E a, b \in DOMAIN rows :
          /\ a < b
          /\ rows[a].permalink # None
          /\ rows[a].permalink = rows[b].permalink
          /\ rows[a].search_query = ""
          /\ rows[b].search_query # ""
          /\ \A t \in Hits(ret.df, "permalink", rows[a].permalink) :
                ret.df[t].search_query = ""

(* C2: when no accumulated row has a non-null permalink, the export        *)
(* deduplicates on url: for every url of the rows the exported table holds *)
(* exactly one row with it, the first inserted (so two rows with different *)
(* urls both survive).                                                     *)
C2_ExportFallsBackToUrl ==
    (/\ ret.op = "export"
     /\ \A k \in DOMAIN rows : rows[k].permalink = None) =>
        \A k \in DOMAIN rows :
            LET hits == Hits(ret.df, "url", rows[k].url)
            IN  /\ Cardinality(hits) = 1
                /\ \A t \in hits :
                      ret.df[t] = rows[FirstWith(rows, "url", rows[k].url)]

(* The identity key of section 3 of the description: permalink, and url    *)
(* when no row has a permalink; two rows with equal key are duplicates.    *)
IdentityKey(rs) ==
    IF \A k \in DOMAIN rs : rs[k].permalink = None THEN "url" ELSE "permalink"

NoDuplicates(rs) ==
    \A a, b \in DOMAIN rs : a < b => rs[a][IdentityKey(rs)] # rs[b][IdentityKey(rs)]

(* The subreddits skipped with a warning *)
Failed == {warned[k] : k \in DOMAIN warned}

(* A failure never stops the loop: whatever has failed, the call is still *)
(* in its loop and the next subreddit of the list can be asked for; only   *)
(* subreddits already gone through have been skipped; and the rows of a    *)
(* listing that did not fail are the last rows of the row list.            *)
FailureIsolated ==
    InPass =>
        /\ (i < Len(names) => ENABLED PassStep)
        /\ Failed \subseteq {names[k] : k \in 1..i}
        /\ (i > 0 /\ ~listing.fails) =>
              LET n == Len(listing.items)
              IN  /\ n <= total
                  /\ \A t \in 1..n :
                        rows[Len(rows) - n + t] =
                            RowFromSubmission(listing.items[t], names[i], query)

(* After a pass in which a subreddit failed, an export of rows without   *)
(* duplicates holds every row of the subreddits that did not fail.        *)
ExportKeepsNonDuplicates ==
    (/\ ret.op = "export"
     /\ Failed # {}
     /\ NoDuplicates(rows)) =>
        \A k \in DOMAIN rows :
            rows[k].subreddit \notin Failed =>
                \E t \in DOMAIN ret.df : ret.df[t] = rows[k]

(* C3: a failure while retrieving one subreddit never leaves the call and  *)
(* never stops the loop: every later subreddit is still requested, every   *)
(* row the other subreddits yield is appended and, absent duplicates,      *)
(* present in the exported table.                                          *)
C3_FailureIsolatedAndRowsExported ==
    FailureIsolated /\ ExportKeepsNonDuplicates

(* C4: a subreddit whose retrieval fails, on the first request or after    *)
(* some submissions were yielded, contributes no row to the pass: the turn *)
(* that logs the warning leaves the row list and the count as they were.   *)
C4_FailedSubredditAddsNothing ==
    [][(InPass /\ Len(warned') > Len(warned)) =>
          (rows' = rows /\ total' = total)]_vars

(* C5: on every raw submission, whatever is absent or malformed, the       *)
(* normaliser does not raise and returns a row of exactly the 14 columns;  *)
(* a created_utc that cannot be converted is null in it and the other      *)
(* fields are still produced.                                              *)
C5_NormalizerNeverRaises ==
    out # None =>
        /\ ~out[1].raised
        /\ DOMAIN out[1].row = Columns
        /\ (IntRaises(sub.s.created_utc) => out[1].row.created_utc = None)
        /\ out[1].row.title = sub.s.title
        /\ out[1].row.url = sub.s.url
        /\ out[1].row.subreddit = sub.name

(* C6: for a submission with a permalink, the row's permalink is the       *)
(* origin followed by the input when the input is a relative path, and the *)
(* input unchanged when it is already absolute.                            *)
C6_PermalinkCanonical ==
    (/\ out # None
     /\ ~out[1].raised
     /\ sub.s.permalink # None
     /\ sub.s.permalink[1] # <<>>) =>
        LET p == sub.s.permalink[1]
        IN  out[1].row.permalink =
                Some(IF Head(p) = ORIGIN THEN p ELSE <<ORIGIN>> \o p)

(* C7: every row of the row list has a string for search_query, never      *)
(* null; the rows a hot pass has appended have the empty string, the rows  *)
(* a search pass has appended have the query of that call.                 *)
C7_SearchQueryProvenance ==
    /\ \A k \in DOMAIN rows : rows[k].search_query \in {""} \cup Queries
    /\ InPass =>
          /\ total <= Len(rows)
          /\ \A k \in (Len(rows) - total + 1)..Len(rows) :
                rows[k].search_query = (IF pc = "hot" THEN "" ELSE query[1])

(* A search pass has appended a row after the rows of a hot pass *)
C7_Witness ==
    /\ pc = "search"
    /\ total > 0
    /\ Len(rows) > total
    /\ rows[1].search_query = ""
    /\ rows[Len(rows)].search_query = "Netflix Originals"

(* The Comment Rows of the post with permalink p, in order *)
Mine(p) == SelectSeq(all_comments, LAMBDA r : r.post_permalink = p)

(* Whether the first n comments of flat are all well formed *)
WellFormed(flat, n) == \A k \in 1..n : flat[k].created_utc[1] = "num"

CommentsAre(mine, flat, n, p) ==
    /\ Len(mine) = n
    /\ \A k \in 1..n : mine[k].comment_id = flat[k].id /\ mine[k].post_permalink = p

(* The original statement of C8: min(n, m) rows under every cap m *)
C8_ExactlyMinOfThreadAndCap ==
    \A t \in 1..j :
        LET p == post_df[t].permalink
            flat == threads[t].flat
            want == Min(Len(flat), cap)
        IN  IF p = None THEN ~threads[t].asked /\ Mine(p) = <<>>
            ELSE (~threads[t].fails /\ WellFormed(flat, want)) =>
                    CommentsAre(Mine(p), flat, want, p)

(* C8, amended: for every post with a non-null permalink whose thread of n *)
(* comments is fetched and normalised without error, the result holds the  *)
(* first min(n, m) comments in the API's order when the cap m is positive  *)
(* and all n comments when the cap is 0, each with the post's permalink; a *)
(* post with a null permalink is not asked for and yields no Comment Row.  *)
C8_CapOrWholeThread ==
    \A t \in 1..j :
        LET p == post_df[t].permalink
            flat == threads[t].flat
            want == IF cap > 0 THEN Min(Len(flat), cap) ELSE Len(flat)
        IN  IF p = None THEN ~threads[t].asked /\ Mine(p) = <<>>
            ELSE (~threads[t].fails /\ WellFormed(flat, want)) =>
                    CommentsAre(Mine(p), flat, want, p)

(* A thread of two comments was cut to the cap of one *)
C8_Witness ==
    /\ pc = "done"
    /\ cap = 1
    /\ \E t \in 1..j :
          /\ post_df[t].permalink # None
          /\ ~threads[t].fails
          /\ Len(threads[t].flat) = 2
          /\ WellFormed(threads[t].flat, 2)
          /\ Len(Mine(post_df[t].permalink)) = 1

(* How many comments of an answer become rows before the try ends *)
Gathered(answer) ==
    LET n == IF cap > 0 THEN Min(Len(answer.flat), cap) ELSE Len(answer.flat)
    IN  IF answer.fails THEN 0
        ELSE IF WellFormed(answer.flat, n) THEN n
        ELSE (CHOOSE k \in 1..n : ~WellFormed(answer.flat, k)
                                  /\ WellFormed(answer.flat, k - 1)) - 1

(* C9: a failure on one post is caught at that post: the rows gathered for *)
(* earlier posts and for the failing post before the failure stay in the   *)
(* result, every later post is still gone through, and the comments file   *)
(* is written with the result.                                             *)
C9_FailureKeepsGatheredRows ==
    /\ Len(threads) = j
    /\ \A t \in 1..j :
          post_df[t].permalink # None =>
              /\ threads[t].asked
              /\ CommentsAre(Mine(post_df[t].permalink), threads[t].flat,
                             Gathered(threads[t]), post_df[t].permalink)
    /\ (pc = "comments" /\ j < Len(post_df)) => ENABLED HarvestStep
    /\ pc = "done" => (j = Len(post_df) /\ comments_csv = Some(all_comments))

(* The first post failed on its second comment and kept its first; the     *)
(* post after it was harvested, and the file was written.                  *)
C9_Witness ==
    /\ pc = "done"
    /\ j = 2
    /\ post_df[1].permalink # None /\ post_df[2].permalink # None
    /\ ~threads[1].fails
    /\ Len(threads[1].flat) = 2
    /\ ~WellFormed(threads[1].flat, 2)
    /\ cap # 1
    /\ Len(Mine(post_df[1].permalink)) = 1
    /\ Len(Mine(post_df[2].permalink)) > 0
    /\ comments_csv = Some(all_comments)

(* C10: the row list is append-only: every step leaves the rows it had as  *)
(* a prefix, to_dataframe and export (and the start and return of a pass)  *)
(* leave it as it was, and the rows a turn of the loop appends are those   *)
(* of the subreddit at the loop's position, which moves down the list.     *)
C10_RowsAppendOnly ==
    [][/\ Len(rows') >= Len(rows)
       /\ SubSeq(rows', 1, Len(rows)) = rows
       /\ ret'.op \in {"to_dataframe", "export"} => rows' = rows
       /\ rows' # rows =>
             /\ InPass
             /\ i' = i + 1
             /\ names' = names
             /\ \A k \in (Len(rows) + 1)..Len(rows') :
                   rows'[k].subreddit = names[i + 1]]_vars

(* Rows of two subreddits in the caller's order, and an export that        *)
(* dropped a duplicate from the table while the row list kept it.          *)
C10_Witness ==
    /\ ret.op = "export"
    /\ Len(ret.df) < Len(rows)
    /\ \E a, b \in DOMAIN rows :
          a < b /\ rows[a].subreddit = "movies" /\ rows[b].subreddit = "netflix"

====
